---- MODULE Spec2Model ----
(***************************************************************************)
(* A model of repoupdate.py: the Addon class (descriptor parsing and       *)
(* release packaging) and the RepoUpdate class (discovery, comparison with *)
(* the published addons.xml, release, and regeneration of addons.xml and   *)
(* addons.xml.md5).  One Run step is one execution of the script's main    *)
(* block: RepoUpdate(source, repo) followed by update(force, force_xml).   *)
(***************************************************************************)
EXTENDS Integers, Sequences, FiniteSets, TLC

VARIABLES
    platform,       \* "posix" or "nt": the script is documented as cross-platform
    src,            \* the add-on source tree: directory -> its files
    manifestFile,   \* bytes of <repo>/addons.xml, or Absent
    md5File,        \* content of <repo>/addons.xml.md5, or Absent
    zips,           \* <repo>/<id>/<id>-<version>.zip: "none", "partial", "complete"
    lastRun,        \* what the running script has done so far (NoRun when none runs)
    chained         \* the previous run completed and the source tree is as it left it

vars == <<platform, src, manifestFile, md5File, zips, lastRun, chained>>

---------------------------------------------------------------------------
(* Domains *)

Ids == {"foo", "bar"}

\* Version strings are character sequences: "9.9" and "10.0".
VersionStrs == { <<"9", ".", "9">>, <<"1", "0", ".", "0">> }

\* The source root and one sub-directory, in the order os.walk visits them.
WalkOrder == <<"root", "sub">>
Dirs == {WalkOrder[i] : i \in 1..Len(WalkOrder)}
Outside == "outside"
Parent(d) == IF d = "root" THEN Outside ELSE "root"

Platforms == {"posix", "nt"}

\* Content of a directory's addon.xml.
NoFile == [kind |-> "absent"]
Garbage == [kind |-> "garbage"]
ValidTrees == {[id |-> i, version |-> v] : i \in Ids, v \in VersionStrs}
PartialTrees == { [version |-> <<"9", ".", "9">>] }
XmlFiles == {NoFile, Garbage}
              \cup {[kind |-> "xml", attrib |-> t] : t \in ValidTrees \cup PartialTrees}
Directories == [xml : XmlFiles, ignore : BOOLEAN]

Absent == [kind |-> "absent"]

ArchiveNames == Ids \X VersionStrs

\* An I/O failure the environment injects into one package's create_release.
NoFault == [dir |-> "none", step |-> "none"]
Faults == {NoFault} \cup [dir : Dirs, step : {"zip", "copy"}]

ForceValues == {"False", "True"} \cup Ids

---------------------------------------------------------------------------
(* version_parts *)

Digits == <<"0", "1", "2", "3", "4", "5", "6", "7", "8", "9">>
IsDigit(c) == \E k \in 1..Len(Digits) : Digits[k] = c
DigitValue(c) == (CHOOSE k \in 1..Len(Digits) : Digits[k] = c) - 1

\* str.split('.')
RECURSIVE SplitDots(_, _, _)
SplitDots(s, i, cur) ==
    IF i > Len(s) THEN <<cur>>
    ELSE IF s[i] = "." THEN <<cur>> \o SplitDots(s, i + 1, <<>>)
    ELSE SplitDots(s, i + 1, Append(cur, s[i]))

\* int(p) for a string of decimal digits; -1 stands for ValueError
RECURSIVE IntOf(_, _, _)
IntOf(p, i, acc) ==
    IF i > Len(p) THEN acc
    ELSE IF ~IsDigit(p[i]) THEN -1
    ELSE IntOf(p, i + 1, acc * 10 + DigitValue(p[i]))

int(p) == IF Len(p) = 0 THEN -1 ELSE IntOf(p, 1, 0)

version_parts(version) ==
    LET ps == SplitDots(version, 1, <<>>)
    IN  [k \in 1..Len(ps) |-> int(ps[k])]

\* Python's list comparison a < b: the first differing position decides,
\* otherwise the shorter list is the smaller one.
RECURSIVE ListLess(_, _, _)
ListLess(a, b, i) ==
    IF i > Len(a) \/ i > Len(b) THEN Len(a) < Len(b)
    ELSE IF a[i] # b[i] THEN a[i] < b[i]
    ELSE ListLess(a, b, i + 1)

---------------------------------------------------------------------------
(* class Addon *)

\* Addon.__init__: ET.parse, the id and version attributes, version_parts.
\* exc names the exception the constructor raises, "none" when it returns.
Addon(d, file) ==
    IF file.kind = "garbage" THEN [exc |-> "ParseError", path |-> d]
    ELSE IF "id" \notin DOMAIN file.attrib THEN [exc |-> "KeyError", path |-> d]
    ELSE IF "version" \notin DOMAIN file.attrib THEN [exc |-> "KeyError", path |-> d]
    ELSE LET parts == version_parts(file.attrib.version)
         IN  IF \E k \in 1..Len(parts) : parts[k] < 0
             THEN [exc |-> "ValueError", path |-> d]
             ELSE [exc |-> "none", path |-> d, id |-> file.attrib.id,
                   version_str |-> file.attrib.version, version |-> parts,
                   tree |-> file.attrib]

\* str(addon): the archive is <repo>/<id>/<id>-<version_str>.zip
ArchiveOf(addon) == <<addon.id, addon.version_str>>

\* Addon.create_release on the repository state st = [zips, cwd].  The zip is
\* opened for writing (truncating an older one) and filled; then the working
\* directory moves to the add-on's directory for the copies and finally to '..'.
\* IOError of a copy is caught; any other exception leaves the method at once.
create_release(addon, st, fault) ==
    IF fault.dir = addon.path /\ fault.step = "zip"
    THEN [zips |-> [st.zips EXCEPT ![ArchiveOf(addon)] = "partial"],
          cwd |-> st.cwd, exc |-> "IOError"]
    ELSE LET zipped == [st.zips EXCEPT ![ArchiveOf(addon)] = "complete"]
         IN  IF fault.dir = addon.path /\ fault.step = "copy"
             THEN [zips |-> zipped, cwd |-> addon.path, exc |-> "OSError"]
             ELSE [zips |-> zipped, cwd |-> Parent(addon.path), exc |-> "none"]

---------------------------------------------------------------------------
(* addons.xml as bytes *)

Tok(name) == [t |-> name]
Elem(tree) == [t |-> "elem", attrib |-> tree]

\* ET.tostring(element, encoding='UTF-8'): the XML declaration and a line feed,
\* then <addons> with one child per appended tree.
tostring(element) ==
    <<Tok("decl"), Tok("lf"), Tok("open")>>
        \o [k \in 1..Len(element) |-> Elem(element[k])]
        \o <<Tok("close")>>

\* open(path, 'w').write(content): a text-mode write; on Windows the C runtime
\* writes every line feed as carriage return + line feed.
RECURSIVE TextModeBytes(_, _)
TextModeBytes(p, content) ==
    IF Len(content) = 0 THEN <<>>
    ELSE (IF p = "nt" /\ Head(content) = Tok("lf")
          THEN <<Tok("cr"), Tok("lf")>>
          ELSE <<Head(content)>>) \o TextModeBytes(p, Tail(content))

WriteText(p, content) == [kind |-> "file", bytes |-> TextModeBytes(p, content)]

\* hashlib.md5(xml).hexdigest(), idealised as collision free.
md5_hexdigest(bytes) == [md5 |-> bytes]

\* The constructor looking for addons.xml in the wrong place: never loaded.
ParseManifest_never(file) == [loaded |-> FALSE, elems |-> <<>>]

\* ET.parse(xml_path).getroot() in RepoUpdate.__init__: IOError (no file) gives
\* None; the parser reads line ends as line feeds and keeps the child elements.
IsElem(tk) == tk.t = "elem"
ParseManifest(file) ==
    IF file.kind = "absent" THEN [loaded |-> FALSE, elems |-> <<>>]
    ELSE LET els == SelectSeq(file.bytes, IsElem)
         IN  [loaded |-> TRUE, elems |-> [k \in 1..Len(els) |-> els[k].attrib]]

---------------------------------------------------------------------------
(* class RepoUpdate *)

\* RepoUpdate._addons over the directories from position i on.
RECURSIVE addons_from(_, _, _)
addons_from(tree, i, acc) ==
    IF i > Len(WalkOrder) THEN acc
    ELSE LET d == WalkOrder[i]
         IN  IF tree[d].xml.kind # "absent" /\ ~tree[d].ignore
             THEN LET a == Addon(d, tree[d].xml)
                  IN  IF a.exc = "none"
                      THEN addons_from(tree, i + 1,
                                       [acc EXCEPT !.addons = Append(@, a)])
                      ELSE IF a.exc = "ParseError"
                      THEN addons_from(tree, i + 1,
                                       [acc EXCEPT !.skipped = Append(@, d)])
                      ELSE [acc EXCEPT !.exc = a.exc]
             ELSE addons_from(tree, i + 1, acc)

_addons(tree) == addons_from(tree, 1, [addons |-> <<>>, skipped |-> <<>>, exc |-> "none"])

\* Element.find("addon[@id='...']"): the first child with that id, 0 if none.
find(elems, addon_id) ==
    IF \E k \in 1..Len(elems) : elems[k].id = addon_id
    THEN CHOOSE k \in 1..Len(elems) :
            /\ elems[k].id = addon_id
            /\ \A j \in 1..(k - 1) : elems[j].id # addon_id
    ELSE 0

\* _needs_update with <= in place of <: an equal version counts as an update.
_needs_update_or_equal(xml, addon_id, version) ==
    IF xml.loaded
    THEN LET k == find(xml.elems, addon_id)
         IN  k = 0 \/ ~ListLess(version, version_parts(xml.elems[k].version), 1)
    ELSE TRUE

\* RepoUpdate._needs_update
_needs_update(xml, addon_id, version) ==
    IF xml.loaded
    THEN LET k == find(xml.elems, addon_id)
         IN  k = 0 \/ ListLess(version_parts(xml.elems[k].version), version, 1)
    ELSE TRUE

\* The release condition with "or force_update" in place of the two tests:
\* naming one add-on then forces them all.
release_wanted_truthy(xml, addon, force_update) ==
    \/ _needs_update(xml, addon.id, addon.version)
    \/ force_update # "False"

\* The release condition of update()'s loop.
release_wanted(xml, addon, force_update) ==
    \/ _needs_update(xml, addon.id, addon.version)
    \/ force_update = "True"
    \/ force_update = addon.id

\* The for loop of update() from position i on.  st carries the archives, the
\* working directory, update_required, the element built so far, and a record
\* of each decision and each create_release call.
RECURSIVE release_from(_, _, _, _, _, _)
release_from(addons, i, xml, force_update, fault, st) ==
    IF i > Len(addons) THEN st
    ELSE LET addon == addons[i]
             needs == _needs_update(xml, addon.id, addon.version)
             rel == release_wanted(xml, addon, force_update)
             st1 == [st EXCEPT !.element = Append(@, addon.tree),
                               !.decisions = Append(@, [needs |-> needs, release |-> rel])]
         IN  IF ~rel THEN release_from(addons, i + 1, xml, force_update, fault, st1)
             ELSE LET r == create_release(addon, [zips |-> st1.zips, cwd |-> st1.cwd], fault)
                      st2 == [st1 EXCEPT !.update_required = TRUE,
                                         !.zips = r.zips,
                                         !.cwd = r.cwd,
                                         !.exc = r.exc,
                                         !.calls = Append(@, [dir |-> addon.path,
                                                              before |-> st1.cwd,
                                                              after |-> r.cwd,
                                                              exc |-> r.exc])]
                  IN  IF r.exc # "none" THEN st2
                      ELSE release_from(addons, i + 1, xml, force_update, fault, st2)

\* The manifest patched instead of rebuilt: the loop starts from the old entries.
patched_element == ParseManifest(manifestFile).elems

\* ET.Element('addons'): the manifest is built from an empty root every run.
new_element == <<>>

\* update_required starting False, whatever force_xml says.
loop_start_unforced(repo_zips, force_xml) ==
    [zips |-> repo_zips, cwd |-> "root", update_required |-> FALSE,
     element |-> new_element, decisions |-> <<>>, calls |-> <<>>, exc |-> "none"]

\* The state update() enters its loop with: update_required = force_xml, and
\* the source root as working directory (RepoUpdate.__init__).
loop_start(repo_zips, force_xml) ==
    [zips |-> repo_zips, cwd |-> "root", update_required |-> force_xml,
     element |-> new_element, decisions |-> <<>>, calls |-> <<>>, exc |-> "none"]

\* The strings update() generates when update_required holds.
generated(element) ==
    LET xml == tostring(element)
    IN  [xml |-> xml, xml_md5 |-> md5_hexdigest(xml)]

NoRun ==
    [outcome |-> "none", exc |-> "none", force_update |-> "False", force_xml |-> FALSE,
     xml |-> [loaded |-> FALSE, elems |-> <<>>], yielded |-> <<>>, found |-> <<>>,
     skipped |-> <<>>,
     decisions |-> <<>>, calls |-> <<>>, wrote |-> FALSE, message |-> "none"]

---------------------------------------------------------------------------
(* The state machine *)

\* Source directories whose descriptor, if any, is a well-formed one.
PlainDirectories ==
    {[xml |-> f, ignore |-> FALSE] :
        f \in {NoFile} \cup {[kind |-> "xml", attrib |-> t] : t \in ValidTrees}}

\* Source directories of every kind, with the add-ons all at version "9.9".
WalkDirectories ==
    {dir \in Directories :
        dir.xml.kind = "xml" => dir.xml.attrib.version = <<"9", ".", "9">>}

EmptyRepo ==
    /\ manifestFile = Absent
    /\ md5File = Absent
    /\ zips = [n \in ArchiveNames |-> "none"]
    /\ lastRun = NoRun
    /\ chained = FALSE

\* Spec: a POSIX machine, source directories with well-formed descriptors at
\* either version, no I/O failure during packaging.
Init ==
    /\ platform = "posix"
    /\ src \in [Dirs -> PlainDirectories]
    /\ EmptyRepo

\* SpecWalk: either platform, source directories of every kind (ignored,
\* unparseable, without id) at one version, and I/O failures during packaging.
InitWalk ==
    /\ platform \in Platforms
    /\ src \in [Dirs -> WalkDirectories]
    /\ EmptyRepo

\* The developer changes one directory of the source tree between runs.
EditSource(d, content) ==
    /\ lastRun.outcome = "none"
    /\ src[d] # content
    /\ src' = [src EXCEPT ![d] = content]
    /\ lastRun' = NoRun
    /\ chained' = FALSE
    /\ UNCHANGED <<platform, manifestFile, md5File, zips>>

\* One execution of the script: RepoUpdate(source, repo).update(force, force_xml).
\* The constructor loads addons.xml and makes the source root the working
\* directory; update() walks, releases, and writes addons.xml and its md5.
Run(force_update, force_xml, fault) ==
    LET xml == ParseManifest(manifestFile)
        walk == _addons(src)
        base == [NoRun EXCEPT !.force_update = force_update, !.force_xml = force_xml,
                              !.xml = xml, !.yielded = walk.addons,
                              !.skipped = walk.skipped]
    IN  /\ lastRun.outcome = "none"
        /\ UNCHANGED <<platform, src, chained>>
        /\ IF walk.exc # "none"
           THEN \* list(self._addons()) raises: nothing was released or written
                /\ lastRun' = [base EXCEPT !.outcome = "raised", !.exc = walk.exc]
                /\ UNCHANGED <<manifestFile, md5File, zips>>
           ELSE IF Len(walk.addons) = 0
           THEN /\ lastRun' = [base EXCEPT !.outcome = "done",
                                           !.message = "No addons found."]
                /\ UNCHANGED <<manifestFile, md5File, zips>>
           ELSE LET st == release_from(walk.addons, 1, xml, force_update, fault,
                                       loop_start(zips, force_xml))
                    ran == [base EXCEPT !.found = walk.addons,
                                        !.decisions = st.decisions,
                                        !.calls = st.calls]
                IN  /\ zips' = st.zips
                    /\ IF st.exc # "none"
                       THEN \* create_release raised: update() is left at once
                            /\ lastRun' = [ran EXCEPT !.outcome = "raised",
                                                      !.exc = st.exc]
                            /\ UNCHANGED <<manifestFile, md5File>>
                       ELSE IF st.update_required
                       THEN LET g == generated(st.element)
                            IN  /\ manifestFile' = WriteText(platform, g.xml)
                                \* the hex digest holds no line feed: written as it is
                                /\ md5File' = [kind |-> "file", text |-> g.xml_md5]
                                /\ lastRun' = [ran EXCEPT !.outcome = "done",
                                                          !.wrote = TRUE,
                                                          !.message = "Updated"]
                       ELSE /\ lastRun' = [ran EXCEPT !.outcome = "done",
                                              !.message = "No repo update required."]
                            /\ UNCHANGED <<manifestFile, md5File>>

\* The script's process ends; its output and in-memory state are gone.
Exit ==
    /\ lastRun.outcome # "none"
    /\ lastRun' = NoRun
    /\ chained' = (lastRun.outcome = "done")
    /\ UNCHANGED <<platform, src, manifestFile, md5File, zips>>

Next ==
    \/ \E d \in Dirs, content \in PlainDirectories : EditSource(d, content)
    \/ \E f \in ForceValues, fx \in BOOLEAN : Run(f, fx, NoFault)
    \/ Exit

Spec == Init /\ [][Next]_vars

NextWalk ==
    \/ \E d \in Dirs, content \in WalkDirectories : EditSource(d, content)
    \/ \E f \in ForceValues, fx \in BOOLEAN, fault \in Faults : Run(f, fx, fault)
    \/ Exit

SpecWalk == InitWalk /\ [][NextWalk]_vars

---------------------------------------------------------------------------
(* What the claims speak of, stated without the operators of the model *)

Running == lastRun.outcome # "none"

\* The integer tuple a version string denotes.
VersionTuple(v) ==
    IF v = <<"9", ".", "9">> THEN <<9, 9>>
    ELSE IF v = <<"1", "0", ".", "0">> THEN <<10, 0>>
    ELSE <<>>

\* Lexicographic order of integer tuples.
LexLess(a, b) ==
    \/ /\ Len(a) < Len(b)
       /\ \A j \in 1..Len(a) : a[j] = b[j]
    \/ \E k \in 1..Len(a) :
          /\ k <= Len(b)
          /\ a[k] < b[k]
          /\ \A j \in 1..(k - 1) : a[j] = b[j]

\* The positions of the loaded manifest that hold an entry for an identifier.
EntriesFor(xml, id) == {k \in 1..Len(xml.elems) : xml.elems[k].id = id}
FirstOf(S) == CHOOSE k \in S : \A j \in S : k <= j

\* The elements of the manifest file on disk, in file order.
ElementsOnDisk ==
    IF manifestFile.kind = "file"
    THEN LET idx == {k \in 1..Len(manifestFile.bytes) : manifestFile.bytes[k].t = "elem"}
             nth[n \in 1..Cardinality(idx)] ==
                 CHOOSE k \in idx : Cardinality({j \in idx : j <= k}) = n
         IN  [n \in 1..Cardinality(idx) |-> manifestFile.bytes[nth[n]].attrib]
    ELSE <<>>

\* The directories create_release was called for in the running script.
Invoked == {lastRun.calls[k].dir : k \in 1..Len(lastRun.calls)}

DistinctIds(addons) ==
    \A i, j \in 1..Len(addons) : addons[i].id = addons[j].id => i = j

\* A directory holds a descriptor that is well-formed XML with id and version.
HasValidDescriptor(d) ==
    /\ src[d].xml.kind = "xml"
    /\ {"id", "version"} \subseteq DOMAIN src[d].xml.attrib
HasInvalidDescriptor(d) == src[d].xml.kind # "absent" /\ ~HasValidDescriptor(d)
Qualifies(d) == HasValidDescriptor(d) /\ ~src[d].ignore

---------------------------------------------------------------------------
(* C1 *)

\* C1: needsUpdate(identifier, version) is true exactly when no manifest is
\* loaded, or the loaded manifest has no entry for the identifier, or its entry
\* for the identifier has a version tuple lexicographically below the given one.
C1_NeedsUpdateIffAbsentOrOlder ==
    Running =>
        \A i \in 1..Len(lastRun.decisions) :
            LET a == lastRun.found[i]
                es == EntriesFor(lastRun.xml, a.id)
            IN  lastRun.decisions[i].needs <=>
                    \/ ~lastRun.xml.loaded
                    \/ es = {}
                    \/ LexLess(VersionTuple(lastRun.xml.elems[FirstOf(es)].version),
                               VersionTuple(a.version_str))

\* A run that found the manifest holding "9.9" for an add-on now at "10.0", and
\* "10.0" for another one whose source is still at "10.0".
C1_Witness ==
    /\ Running
    /\ lastRun.xml.loaded
    /\ \E i, j \in 1..Len(lastRun.decisions) :
          LET a == lastRun.found[i]
              b == lastRun.found[j]
              ea == EntriesFor(lastRun.xml, a.id)
              eb == EntriesFor(lastRun.xml, b.id)
          IN  /\ ea # {} /\ eb # {}
              /\ lastRun.xml.elems[FirstOf(ea)].version = <<"9", ".", "9">>
              /\ a.version_str = <<"1", "0", ".", "0">>
              /\ lastRun.decisions[i].needs
              /\ lastRun.xml.elems[FirstOf(eb)].version = <<"1", "0", ".", "0">>
              /\ b.version_str = <<"1", "0", ".", "0">>
              /\ ~lastRun.decisions[j].needs

---------------------------------------------------------------------------
(* C2 *)

Unforced == lastRun.force_update = "False" /\ ~lastRun.force_xml

\* C2 as claimed: a run without force flags that follows a completed run on
\* the same source tree releases nothing, writes nothing and reports "No repo
\* update required."
C2_SecondRunIdle ==
    (Running /\ chained /\ Unforced) =>
        /\ lastRun.calls = <<>>
        /\ ~lastRun.wrote
        /\ lastRun.message = "No repo update required."

\* C2 amended: the same when the discovered add-ons have pairwise distinct
\* identifiers, the report being "No addons found." when none is discovered.
C2_SecondRunIdleDistinctIds ==
    (Running /\ chained /\ Unforced /\ DistinctIds(lastRun.yielded)) =>
        /\ lastRun.outcome = "done"
        /\ lastRun.calls = <<>>
        /\ ~lastRun.wrote
        /\ lastRun.message = IF Len(lastRun.found) = 0 THEN "No addons found."
                                                      ELSE "No repo update required."

\* A second run over two add-ons whose manifest, written by an earlier run,
\* lists both: the loaded manifest is what decides it.
C2_Witness ==
    /\ Running /\ chained /\ Unforced
    /\ Len(lastRun.found) = 2
    /\ DistinctIds(lastRun.found)
    /\ lastRun.xml.loaded
    /\ Len(lastRun.xml.elems) = 2
    /\ lastRun.message = "No repo update required."

---------------------------------------------------------------------------
(* C3 *)

\* C3: whenever a run writes the manifest, the manifest on disk holds exactly
\* the descriptors of the add-ons discovered in that run, one each, in the
\* order of discovery, and no entry of the previous manifest.
C3_ManifestIsDiscovered ==
    (Running /\ lastRun.wrote) =>
        /\ Len(ElementsOnDisk) = Len(lastRun.found)
        /\ \A i \in 1..Len(lastRun.found) :
              ElementsOnDisk[i] = src[lastRun.found[i].path].xml.attrib
        /\ \A i, j \in 1..Len(lastRun.found) :
              i < j => \E m, n \in 1..Len(WalkOrder) :
                          /\ m < n
                          /\ WalkOrder[m] = lastRun.found[i].path
                          /\ WalkOrder[n] = lastRun.found[j].path

\* A run that wrote a manifest of two add-ons of which it released only one,
\* over an old manifest that listed a different add-on first.
C3_Witness ==
    /\ Running /\ lastRun.wrote
    /\ Len(lastRun.found) = 2
    /\ Len(lastRun.calls) = 1
    /\ lastRun.xml.loaded
    /\ Len(lastRun.xml.elems) > 0
    /\ lastRun.xml.elems[1].id # lastRun.found[1].id

---------------------------------------------------------------------------
(* C4 *)

\* C4: every add-on the loop reaches is released exactly when needsUpdate holds
\* for it, or force_update is True, or force_update is its identifier; a run
\* that completes has reached every discovered add-on, and create_release is
\* called for the released add-ons and for no other.
C4_ReleasedIffNeededOrForced ==
    Running =>
        /\ lastRun.outcome = "done" => Len(lastRun.decisions) = Len(lastRun.found)
        /\ \A i \in 1..Len(lastRun.decisions) :
              /\ lastRun.decisions[i].release <=>
                    \/ lastRun.decisions[i].needs
                    \/ lastRun.force_update = "True"
                    \/ lastRun.force_update = lastRun.found[i].id
              /\ lastRun.decisions[i].release <=> lastRun.found[i].path \in Invoked
        /\ Invoked \subseteq {lastRun.found[i].path : i \in 1..Len(lastRun.decisions)}

\* force_update names an add-on the manifest already holds at a greater
\* version: it is released, and the other, unchanged add-on is not.
C4_Witness ==
    /\ Running
    /\ lastRun.outcome = "done"
    /\ lastRun.force_update \in Ids
    /\ \E i, j \in 1..Len(lastRun.found) :
          LET a == lastRun.found[i]
              es == EntriesFor(lastRun.xml, a.id)
          IN  /\ a.id = lastRun.force_update
              /\ es # {}
              /\ lastRun.xml.elems[FirstOf(es)].version = <<"1", "0", ".", "0">>
              /\ a.version_str = <<"9", ".", "9">>
              /\ ~lastRun.decisions[i].needs
              /\ a.path \in Invoked
              /\ lastRun.found[j].id # a.id
              /\ lastRun.found[j].path \notin Invoked

---------------------------------------------------------------------------
(* C5 *)

\* What the claim makes a run write for: an add-on was discovered, and one of
\* them was released or force_xml is set.
ShouldWrite(run) ==
    /\ Len(run.found) > 0
    /\ \/ run.force_xml
       \/ \E i \in 1..Len(run.decisions) : run.decisions[i].release

\* C5: a run that completes writes addons.xml and addons.xml.md5 if and only if
\* it discovered an add-on and (released one or force_xml is set); otherwise
\* both files are left as they were.
C5_WritesIffDiscoveredAndRequired ==
    [][(lastRun.outcome = "none" /\ lastRun'.outcome = "done") =>
          /\ lastRun'.wrote <=> ShouldWrite(lastRun')
          /\ ShouldWrite(lastRun') =>
                /\ manifestFile'.kind = "file"
                /\ md5File'.kind = "file"
                /\ ElementsOnDisk' = [i \in 1..Len(lastRun'.found) |-> lastRun'.found[i].tree]
          /\ ~ShouldWrite(lastRun') => UNCHANGED <<manifestFile, md5File>>]_vars

\* A completed run with force_xml that released nothing and rewrote a manifest
\* that differs from the one it loaded.
C5_Witness ==
    /\ lastRun.outcome = "done"
    /\ lastRun.force_xml
    /\ lastRun.calls = <<>>
    /\ lastRun.wrote
    /\ lastRun.xml.loaded
    /\ ElementsOnDisk # lastRun.xml.elems

---------------------------------------------------------------------------
(* C6 *)

\* C6: whenever the tool has written addons.xml and addons.xml.md5, the content
\* of addons.xml.md5 is the MD5 hex digest of the bytes of addons.xml on disk.
C6_ChecksumMatchesManifest ==
    (manifestFile.kind = "file" /\ md5File.kind = "file") =>
        md5File.text = md5_hexdigest(manifestFile.bytes)

---------------------------------------------------------------------------
(* C7 *)

\* C7: the walk yields an add-on for a directory if and only if the directory
\* holds a valid descriptor and no .repoignore; a directory below one with a
\* .repoignore is judged on its own.
C7_YieldsIffDescriptorAndNoSentinel ==
    Running =>
        \A d \in Dirs :
            (\E i \in 1..Len(lastRun.yielded) : lastRun.yielded[i].path = d)
                <=> Qualifies(d)

---------------------------------------------------------------------------
(* C8 *)

\* C8: an invalid descriptor, unparseable or lacking id or version, never ends
\* the run: its path is logged, it is left out, and the add-ons of the other
\* directories are still discovered and handled.
C8_InvalidDescriptorSkipped ==
    Running =>
        /\ lastRun.exc \notin {"KeyError", "ValueError", "ParseError"}
        /\ \A d \in Dirs :
              (HasInvalidDescriptor(d) /\ ~src[d].ignore) =>
                  \E k \in 1..Len(lastRun.skipped) : lastRun.skipped[k] = d
        /\ Len(lastRun.found) = Cardinality({d \in Dirs : Qualifies(d)})

---------------------------------------------------------------------------
(* C9 *)

\* C9: from an empty repository on, every entry (identifier, version) of the
\* addons.xml on disk has a completely written archive of that identifier and
\* version in the repository.
C9_ManifestEntriesHaveArchives ==
    \A k \in 1..Len(ElementsOnDisk) :
        zips[<<ElementsOnDisk[k].id, ElementsOnDisk[k].version>>] = "complete"

---------------------------------------------------------------------------
(* C10 *)

\* C10: after every create_release, returned or failed, the working directory
\* is the one it was called in.
C10_WorkingDirectoryRestored ==
    \A k \in 1..Len(lastRun.calls) :
        lastRun.calls[k].after = lastRun.calls[k].before

====
